---- MODULE Spec2Model ----
(***************************************************************************)
(* A model of the rust-rcon command line client (src/main.rs): the command *)
(* collection loop of main, the endpoint composed by run, and the          *)
(* connect / write / close sequence of send_packages.                      *)
(*                                                                         *)
(* A string is a sequence of one-character strings, so that formatting,    *)
(* parsing and escaping are computed character by character.               *)
(***************************************************************************)
EXTENDS Integers, Sequences, FiniteSets, TLC

\* ------------------------------------------------------------------------
\* Bounds of the model
\* ------------------------------------------------------------------------
\* largest number of positional `commands` arguments on the command line
MaxCmds == 3
\* largest number of bytes waiting on standard input
MaxStdin == 2
\* largest number of bytes a terminal delivers after its first end of input
MaxMore == 2

\* ------------------------------------------------------------------------
\* String literals of the program and of the inputs
\* ------------------------------------------------------------------------
Dash == <<"-">>
WebRcon == <<"W", "e", "b", "R", "c", "o", "n">>
DefaultPort == <<"2", "8", "0", "1", "6">>
SchemeWs == <<"w", "s">>
SchemeWss == <<"w", "s", "s">>
LF == "\n"
CR == "\r"
TAB == "\t"
QUOTE == "\""
BSLASH == "\\"

\* the error contexts attached by the program, one per fallible call
CtxStdin == "Could not read line from STDIN"
CtxPort == "Could not parse port"
CtxUrl_AsConnect == "Could not connect to RCON"
CtxUrl == "Could not parse url"
CtxConnect == "Could not connect to RCON"
CtxJson == "Could not parse package to json"
CtxSend == "Could not send message to RCON"
CtxClose == "Could not close socket"
\* clap reports a usage error itself and exits
ClapUsage == "clap usage error"

\* inputs
ExampleCom == <<"e", "x", "a", "m", "p", "l", "e", ".", "c", "o", "m">>
Ip1234 == <<"1", ".", "2", ".", "3", ".", "4">>
Secret == <<"s", "e", "c", "r", "e", "t">>
Pw == <<"p", "w">>
PwHash == <<"p", "#", "w">>
SayHello == <<"s", "a", "y", " ", "h", "e", "l", "l", "o">>
Port28017 == <<"2", "8", "0", "1", "7">>
Port65536 == <<"6", "5", "5", "3", "6">>

Servers == {ExampleCom, Ip1234, <<>>}
Passwords == {Secret, Pw, PwHash}
PortArgs == {Port28017, Port65536}
CmdTokens == {Dash, SayHello}
StdinBytes == {"-", LF}
\* a line that ends in "\r\n"
CrLfInput == <<"-", CR, LF>>

\* all sequences over S of length at most n
RECURSIVE SeqsUpTo(_, _)
SeqsUpTo(S, n) ==
    IF n = 0 THEN {<<>>}
    ELSE LET shorter == SeqsUpTo(S, n - 1)
         IN  shorter \cup {Append(s, x) : s \in {t \in shorter : Len(t) = n - 1}, x \in S}

\* the element of a one-element set: The({e : v \in {x}}) is e with v
\* standing for the value of x, x being evaluated once
The(S) == CHOOSE r \in S : TRUE
Least(S) == CHOOSE m \in S : \A x \in S : m <= x
Greatest(S) == CHOOSE m \in S : \A x \in S : m >= x

\* ------------------------------------------------------------------------
\* Decimal formatting and parsing
\* ------------------------------------------------------------------------
Digits == <<"0", "1", "2", "3", "4", "5", "6", "7", "8", "9">>
DigitSet == {Digits[i] : i \in 1..10}
DigitVal(c) == (CHOOSE i \in 1..10 : Digits[i] = c) - 1

\* Display of an unsigned integer: decimal, no padding
RECURSIVE FmtNat(_)
FmtNat(n) == IF n < 10 THEN <<Digits[n + 1]>> ELSE Append(FmtNat(n \div 10), Digits[(n % 10) + 1])

\* Display / serde_json rendering of a signed integer
FmtInt(n) == IF n < 0 THEN <<"-">> \o FmtNat(-n) ELSE FmtNat(n)

U16Max == 65535

\* value of a non-empty digit string, or -1 as soon as it exceeds max
RECURSIVE DigitsValue(_, _)
DigitsValue(s, max) ==
    The({ IF Len(sv) = 0 THEN 0
          ELSE The({ The({ IF hi < 0 \/ v > max THEN -1 ELSE v :
                           v \in {hi * 10 + DigitVal(sv[Len(sv)])} }) :
                     hi \in {DigitsValue(SubSeq(sv, 1, Len(sv) - 1), max)} }) :
          sv \in {s} })

\* str::parse::<u16>: an optional leading "+", then one or more decimal
\* digits, the value at most 65535; anything else is an error
ParseU16(s) ==
    LET body == IF Len(s) > 0 /\ s[1] = "+" THEN Tail(s) ELSE s
    IN  IF Len(body) = 0 \/ \E i \in 1..Len(body) : body[i] \notin DigitSet
        THEN [ok |-> FALSE, val |-> 0]
        ELSE LET v == DigitsValue(body, U16Max)
             IN  IF v < 0 THEN [ok |-> FALSE, val |-> 0] ELSE [ok |-> TRUE, val |-> v]

\* ------------------------------------------------------------------------
\* Package and its JSON serialization
\* ------------------------------------------------------------------------
\* new_command with the identifier left at the integer default
new_command_ZeroId(command) == [identifier |-> 0, message |-> command, name |-> WebRcon]

\* Package::new_command
new_command(command) == [identifier |-> -1, message |-> command, name |-> WebRcon]

\* serde_json's escaping of one character of a string
EscapeChar(c) ==
    CASE c = QUOTE  -> <<BSLASH, QUOTE>>
      [] c = BSLASH -> <<BSLASH, BSLASH>>
      [] c = LF     -> <<BSLASH, "n">>
      [] c = CR     -> <<BSLASH, "r">>
      [] c = TAB    -> <<BSLASH, "t">>
      [] OTHER      -> <<c>>

RECURSIVE JsonEscape(_)
JsonEscape(s) == IF Len(s) = 0 THEN <<>> ELSE EscapeChar(Head(s)) \o JsonEscape(Tail(s))

JsonString(s) == <<QUOTE>> \o JsonEscape(s) \o <<QUOTE>>

KeyIdentifier == <<"I", "d", "e", "n", "t", "i", "f", "i", "e", "r">>
KeyMessage == <<"M", "e", "s", "s", "a", "g", "e">>
KeyName == <<"N", "a", "m", "e">>

\* to_string with the fields in alphabetical order of the Rust field names
to_string_NameBeforeMessage(package) ==
    <<"{">> \o JsonString(KeyIdentifier) \o <<":">> \o FmtInt(package.identifier)
    \o <<",">> \o JsonString(KeyName) \o <<":">> \o JsonString(package.name)
    \o <<",">> \o JsonString(KeyMessage) \o <<":">> \o JsonString(package.message)
    \o <<"}">>

\* serde_json::to_string(&package): the derived Serialize writes the fields
\* in declaration order under their renamed keys, compactly
to_string(package) ==
    <<"{">> \o JsonString(KeyIdentifier) \o <<":">> \o FmtInt(package.identifier)
    \o <<",">> \o JsonString(KeyMessage) \o <<":">> \o JsonString(package.message)
    \o <<",">> \o JsonString(KeyName) \o <<":">> \o JsonString(package.name)
    \o <<"}">>

\* Message::Text(json)
Text(json) == [kind |-> "Text", payload |-> json]

\* ------------------------------------------------------------------------
\* Standard input: BufRead::lines
\* ------------------------------------------------------------------------
\* least index i >= from with s[i] \in stops, or Len(s) + 1
IndexOfAny(s, stops, from) ==
    The({ Least({i \in f..Len(sv) : sv[i] \in stops} \cup {Len(sv) + 1}) :
          sv \in {s}, f \in {from} })

\* One step of the Lines iterator over the bytes of standard input, read
\* offset pos (1-based): None at end of input, else the bytes up to and
\* including the next "\n" (or to the end), with a final "\n" removed and
\* then a "\r" that preceded it
ReadLine(bytes, pos) ==
    IF pos > Len(bytes) THEN [eof |-> TRUE, line |-> <<>>, next |-> pos]
    ELSE LET nl == IndexOfAny(bytes, {LF}, pos)
             raw == SubSeq(bytes, pos, nl - 1)
             hasNl == nl <= Len(bytes)
             line == IF hasNl /\ Len(raw) > 0 /\ raw[Len(raw)] = CR
                     THEN SubSeq(raw, 1, Len(raw) - 1)
                     ELSE raw
         IN  [eof |-> FALSE, line |-> line, next |-> IF hasNl THEN nl + 1 ELSE nl]

\* ------------------------------------------------------------------------
\* The endpoint: format! in run, Url::parse in send_packages
\* ------------------------------------------------------------------------
\* Endpoint with the two schemes exchanged
Endpoint_SchemesSwapped(server, port, password, ssl) ==
    (IF ssl THEN SchemeWs ELSE SchemeWss) \o <<":", "/", "/">> \o server
    \o <<":">> \o FmtNat(port) \o <<"/">> \o password

\* format!("{}://{}:{}/{}", if ssl { "wss" } else { "ws" }, server, port, password)
Endpoint(server, port, password, ssl) ==
    (IF ssl THEN SchemeWss ELSE SchemeWs) \o <<":", "/", "/">> \o server
    \o <<":">> \o FmtNat(port) \o <<"/">> \o password

\* characters removed from both ends of the input by the URL parser
UrlTrimSet == {" ", LF, CR, TAB}
\* characters removed anywhere in the input by the URL parser
UrlSkipSet == {LF, CR, TAB}
\* code points that may not appear in the host of a special-scheme URL
ForbiddenHost == {" ", "#", "%", "/", ":", "<", ">", "?", "@", "[", BSLASH, "]", "^", "|"}

RECURSIVE TrimLeft(_)
TrimLeft(s) == IF Len(s) > 0 /\ Head(s) \in UrlTrimSet THEN TrimLeft(Tail(s)) ELSE s

RECURSIVE TrimRight(_)
TrimRight(s) ==
    IF Len(s) > 0 /\ s[Len(s)] \in UrlTrimSet THEN TrimRight(SubSeq(s, 1, Len(s) - 1)) ELSE s

\* least index i >= from with s[i] \notin skip, or Len(s) + 1
IndexOfNone(s, skip, from) ==
    The({ Least({i \in f..Len(sv) : sv[i] \notin skip} \cup {Len(sv) + 1}) :
          sv \in {s}, f \in {from} })

\* greatest index i <= upto with s[i] = c, or 0
LastIndexOf(s, c, upto) ==
    The({ Greatest({i \in 1..u : sv[i] = c} \cup {0}) :
          sv \in {s}, u \in {upto} })

Hex == <<"0", "1", "2", "3", "4", "5", "6", "7", "8", "9", "A", "B", "C", "D", "E", "F">>

\* the path percent-encode set of the URL parser, as "%XX" (the grave accent,
\* also in that set, is not a character of any input of this model)
PathEncoded(c) ==
    CASE c = " "   -> <<"%", "2", "0">>
      [] c = QUOTE -> <<"%", "2", "2">>
      [] c = "<"   -> <<"%", "3", "C">>
      [] c = ">"   -> <<"%", "3", "E">>
      [] c = "{"   -> <<"%", "7", "B">>
      [] c = "}"   -> <<"%", "7", "D">>
      [] OTHER     -> <<c>>

\* the path of a special-scheme URL: "\" is a separator like "/", and the
\* characters of the path percent-encode set are escaped
RECURSIVE EncodePath(_)
EncodePath(s) ==
    IF Len(s) = 0 THEN <<>>
    ELSE (IF Head(s) = BSLASH THEN <<"/">> ELSE PathEncoded(Head(s))) \o EncodePath(Tail(s))

UrlErr(kind) ==
    [ok |-> FALSE, err |-> kind, scheme |-> <<>>, host |-> <<>>, port |-> -1,
     path |-> <<>>, query |-> <<>>, fragment |-> <<>>]

\* Url::parse for an input "<scheme>:..." whose scheme is ws or wss (both
\* "special"): the slashes after the scheme, the authority up to the first
\* of / \ ? #, then path, "?" query and "#" fragment.  port is -1 when the
\* authority has no port.
UrlParse(input) ==
    LET t == SelectSeq(TrimRight(TrimLeft(input)), LAMBDA c : c \notin UrlSkipSet)
        colon == IndexOfAny(t, {":"}, 1)
        scheme == SubSeq(t, 1, colon - 1)
        authStart == IndexOfNone(t, {"/", BSLASH}, colon + 1)
        authEnd == IndexOfAny(t, {"/", BSLASH, "?", "#"}, authStart)
        authority == SubSeq(t, authStart, authEnd - 1)
        at == LastIndexOf(authority, "@", Len(authority))
        hostport == SubSeq(authority, at + 1, Len(authority))
        hcolon == IndexOfAny(hostport, {":"}, 1)
        host == SubSeq(hostport, 1, hcolon - 1)
        portStr == SubSeq(hostport, hcolon + 1, Len(hostport))
        pathEnd == IndexOfAny(t, {"?", "#"}, authEnd)
        rawPath == SubSeq(t, authEnd, pathEnd - 1)
        queryEnd == IndexOfAny(t, {"#"}, pathEnd)
        query == IF pathEnd <= Len(t) /\ t[pathEnd] = "?"
                 THEN SubSeq(t, pathEnd + 1, queryEnd - 1) ELSE <<>>
        fragment == SubSeq(t, queryEnd + 1, Len(t))
    IN  IF colon > Len(t) \/ scheme \notin {SchemeWs, SchemeWss}
        THEN UrlErr("RelativeUrlWithoutBase")
        ELSE IF Len(host) = 0 THEN UrlErr("EmptyHost")
        ELSE IF \E i \in 1..Len(host) : host[i] \in ForbiddenHost
        THEN UrlErr("InvalidDomainCharacter")
        ELSE IF \E i \in 1..Len(portStr) : portStr[i] \notin DigitSet
        THEN UrlErr("InvalidPort")
        ELSE IF Len(portStr) > 0 /\ DigitsValue(portStr, U16Max) < 0
        THEN UrlErr("InvalidPort")
        ELSE [ok |-> TRUE, err |-> "", scheme |-> scheme, host |-> host,
              port |-> IF Len(portStr) = 0 THEN -1 ELSE DigitsValue(portStr, U16Max),
              path |-> IF Len(rawPath) = 0 THEN <<"/">> ELSE EncodePath(rawPath),
              query |-> query, fragment |-> fragment]

\* serde_json::to_string(&package) as a Result: serializing an i32 and two
\* strings into a String has no failing case
Serialize(package) == [ok |-> TRUE, json |-> to_string(package)]

\* ------------------------------------------------------------------------
\* State
\* ------------------------------------------------------------------------
VARIABLES
    positionals,  \* the positional arguments of the command line, in order
    portOpt,      \* the value of -p/--port: <<>> when absent, else <<value>>
    sslFlag,      \* whether --ssl was given
    stdin,        \* the bytes waiting on standard input
    pc,           \* where main is
    argi,         \* main: index of the command argument being processed
    stdinPos,     \* offset of the next unread byte of standard input
    eofs,         \* the offsets at which end of input was reported, in order
    packages,     \* main: the Vec<Package> built so far
    port,         \* the parsed port
    url,          \* run: the formatted endpoint
    parsed,       \* send_packages: the Url handed to connect
    socket,       \* send_packages: "none", "open" or "closed"
    sendi,        \* send_packages: index of the package the loop is at
    wire,         \* the frames written to the socket, in order
    trace,        \* every fallible call made so far, with its outcome
    result,       \* "pending", "Ok", or the context of the error returned
    exitCode      \* the exit code of the process, -1 while it runs

vars == <<positionals, portOpt, sslFlag, stdin, pc, argi, stdinPos, eofs, packages, port,
          url, parsed, socket, sendi, wire, trace, result, exitCode>>

inputs == <<positionals, portOpt, sslFlag, stdin>>

\* the values clap hands out: matches.value_of / values_of / is_present
Server == positionals[1]
Password == positionals[2]
Commands == SubSeq(positionals, 3, Len(positionals))
PortValue == IF portOpt = <<>> THEN DefaultPort ELSE portOpt[1]

NoUrl == UrlErr("none")

Call(op, ok) == [op |-> op, ok |-> ok]

StdinContents == SeqsUpTo(StdinBytes, MaxStdin) \cup {CrLfInput}

ArgLists ==
    {<<>>} \cup {<<s>> : s \in Servers}
    \cup {<<s, p>> \o cmds : s \in Servers, p \in Passwords, cmds \in SeqsUpTo(CmdTokens, MaxCmds)}

Init ==
    /\ positionals \in ArgLists
    /\ portOpt \in {<<>>} \cup {<<p>> : p \in PortArgs}
    /\ sslFlag \in BOOLEAN
    /\ stdin \in StdinContents
    /\ pc = "get_matches"
    /\ argi = 1
    /\ stdinPos = 1
    /\ eofs = <<>>
    /\ packages = <<>>
    /\ port = 0
    /\ url = <<>>
    /\ parsed = NoUrl
    /\ socket = "none"
    /\ sendi = 1
    /\ wire = <<>>
    /\ trace = <<>>
    /\ result = "pending"
    /\ exitCode = -1

\* `?` on an Err: the error, wrapped in its context, is returned up to main,
\* which returns it
Fail(op, context) ==
    /\ trace' = Append(trace, Call(op, FALSE))
    /\ result' = context
    /\ pc' = "return"

\* ------------------------------------------------------------------------
\* main: argument parsing and command collection
\* ------------------------------------------------------------------------
\* get_matches with server, password and at least one command present
GetMatchesOk ==
    /\ pc = "get_matches"
    /\ Len(positionals) >= 3
    /\ pc' = "commands"
    /\ trace' = Append(trace, Call("get_matches", TRUE))
    /\ UNCHANGED <<inputs, eofs, argi, stdinPos, packages, port, url, parsed, socket, sendi,
                   wire, result, exitCode>>

\* get_matches with a required argument missing: clap prints the usage
\* error and exits the process with code 1
GetMatchesUsage ==
    /\ pc = "get_matches"
    /\ Len(positionals) < 3
    /\ pc' = "exit"
    /\ trace' = Append(trace, Call("get_matches", FALSE))
    /\ result' = ClapUsage
    /\ exitCode' = 1
    /\ UNCHANGED <<inputs, eofs, argi, stdinPos, packages, port, url, parsed, socket, sendi, wire>>

\* a command other than "-": one package
PushCommand ==
    /\ pc = "commands"
    /\ argi <= Len(Commands)
    /\ Commands[argi] # Dash
    /\ packages' = Append(packages, new_command(Commands[argi]))
    /\ argi' = argi + 1
    /\ UNCHANGED <<inputs, eofs, pc, stdinPos, port, url, parsed, socket, sendi, wire, trace,
                   result, exitCode>>

\* OpenStdin without the test for "-": standard input is read at any argument
OpenStdin_Always ==
    /\ pc = "commands"
    /\ argi <= Len(Commands)
    /\ pc' = "stdin"
    /\ UNCHANGED <<inputs, eofs, argi, stdinPos, packages, port, url, parsed, socket, sendi,
                   wire, trace, result, exitCode>>

\* the command "-": io::stdin() and the start of the loop over its lines
OpenStdin ==
    /\ pc = "commands"
    /\ argi <= Len(Commands)
    /\ Commands[argi] = Dash
    /\ pc' = "stdin"
    /\ UNCHANGED <<inputs, eofs, argi, stdinPos, packages, port, url, parsed, socket, sendi,
                   wire, trace, result, exitCode>>

\* ReadLineOk taking a line "-" for the sentinel: the line is read and dropped
ReadLineOk_DashDropped ==
    /\ pc = "stdin"
    /\ LET r == ReadLine(stdin, stdinPos)
       IN  /\ ~r.eof
           /\ packages' = IF r.line = Dash THEN packages
                          ELSE Append(packages, new_command(r.line))
           /\ stdinPos' = r.next
    /\ trace' = Append(trace, Call("read_line", TRUE))
    /\ UNCHANGED <<inputs, eofs, pc, argi, port, url, parsed, socket, sendi, wire, result, exitCode>>

\* the next line of standard input: one package
ReadLineOk ==
    /\ pc = "stdin"
    /\ LET r == ReadLine(stdin, stdinPos)
       IN  /\ ~r.eof
           /\ packages' = Append(packages, new_command(r.line))
           /\ stdinPos' = r.next
    /\ trace' = Append(trace, Call("read_line", TRUE))
    /\ UNCHANGED <<inputs, eofs, pc, argi, port, url, parsed, socket, sendi, wire, result, exitCode>>

\* ReadLineErr with the unreadable line skipped: the loop over the lines
\* ends there and main goes on with what it has
ReadLineErr_Skipped ==
    /\ pc = "stdin"
    /\ trace' = Append(trace, Call("read_line", FALSE))
    /\ pc' = "commands"
    /\ argi' = argi + 1
    /\ UNCHANGED <<inputs, eofs, stdinPos, packages, port, url, parsed, socket, sendi, wire,
                   result, exitCode>>

\* a read of standard input fails
ReadLineErr ==
    /\ pc = "stdin"
    /\ Fail("read_line", CtxStdin)
    /\ UNCHANGED <<inputs, eofs, argi, stdinPos, packages, port, url, parsed, socket, sendi,
                   wire, exitCode>>

\* ReadLineEof leaving the loop over the command arguments as well
ReadLineEof_Break ==
    /\ pc = "stdin"
    /\ ReadLine(stdin, stdinPos).eof
    /\ pc' = "commands"
    /\ eofs' = Append(eofs, stdinPos)
    /\ argi' = Len(Commands) + 1
    /\ UNCHANGED <<inputs, stdinPos, packages, port, url, parsed, socket, sendi, wire,
                   trace, result, exitCode>>

\* ReadLineEof going back to the loop over the arguments without moving on
ReadLineEof_NoAdvance ==
    /\ pc = "stdin"
    /\ ReadLine(stdin, stdinPos).eof
    /\ pc' = "commands"
    /\ UNCHANGED <<inputs, eofs, argi, stdinPos, packages, port, url, parsed, socket, sendi, wire,
                   trace, result, exitCode>>

\* ReadLineEof starting again at the first byte of standard input
ReadLineEof_Rewind ==
    /\ pc = "stdin"
    /\ ReadLine(stdin, stdinPos).eof
    /\ pc' = "commands"
    /\ eofs' = Append(eofs, stdinPos)
    /\ argi' = argi + 1
    /\ stdinPos' = 1
    /\ UNCHANGED <<inputs, packages, port, url, parsed, socket, sendi, wire,
                   trace, result, exitCode>>

\* end of standard input: on to the next command argument
ReadLineEof ==
    /\ pc = "stdin"
    /\ ReadLine(stdin, stdinPos).eof
    /\ pc' = "commands"
    /\ eofs' = Append(eofs, stdinPos)
    /\ argi' = argi + 1
    /\ UNCHANGED <<inputs, stdinPos, packages, port, url, parsed, socket, sendi, wire,
                   trace, result, exitCode>>

\* the port argument parses as u16
ParsePortOk ==
    /\ pc = "commands"
    /\ argi > Len(Commands)
    /\ ParseU16(PortValue).ok
    /\ port' = ParseU16(PortValue).val
    /\ pc' = "run"
    /\ trace' = Append(trace, Call("parse_port", TRUE))
    /\ UNCHANGED <<inputs, eofs, argi, stdinPos, packages, url, parsed, socket, sendi, wire,
                   result, exitCode>>

\* ParsePortErr falling back to the default port
ParsePortErr_Default ==
    /\ pc = "commands"
    /\ argi > Len(Commands)
    /\ ~ParseU16(PortValue).ok
    /\ port' = ParseU16(DefaultPort).val
    /\ pc' = "run"
    /\ trace' = Append(trace, Call("parse_port", FALSE))
    /\ UNCHANGED <<inputs, eofs, argi, stdinPos, packages, url, parsed, socket, sendi, wire,
                   result, exitCode>>

\* the port argument does not parse as u16
ParsePortErr ==
    /\ pc = "commands"
    /\ argi > Len(Commands)
    /\ ~ParseU16(PortValue).ok
    /\ Fail("parse_port", CtxPort)
    /\ UNCHANGED <<inputs, eofs, argi, stdinPos, packages, port, url, parsed, socket, sendi,
                   wire, exitCode>>

\* ------------------------------------------------------------------------
\* run and send_packages
\* ------------------------------------------------------------------------
\* run: format the endpoint and call send_packages
Run ==
    /\ pc = "run"
    /\ url' = Endpoint(Server, port, Password, sslFlag)
    /\ pc' = "url_parse"
    /\ UNCHANGED <<inputs, eofs, argi, stdinPos, packages, port, parsed, socket, sendi, wire,
                   trace, result, exitCode>>

ParseUrlOk ==
    /\ pc = "url_parse"
    /\ UrlParse(url).ok
    /\ parsed' = UrlParse(url)
    /\ pc' = "connect"
    /\ trace' = Append(trace, Call("url_parse", TRUE))
    /\ UNCHANGED <<inputs, eofs, argi, stdinPos, packages, port, url, socket, sendi, wire,
                   result, exitCode>>

\* ParseUrlErr with the error dropped: connect is called all the same
ParseUrlErr_Ignored ==
    /\ pc = "url_parse"
    /\ ~UrlParse(url).ok
    /\ trace' = Append(trace, Call("url_parse", FALSE))
    /\ pc' = "connect"
    /\ UNCHANGED <<inputs, eofs, argi, stdinPos, packages, port, url, parsed, socket, sendi,
                   wire, result, exitCode>>

ParseUrlErr ==
    /\ pc = "url_parse"
    /\ ~UrlParse(url).ok
    /\ Fail("url_parse", CtxUrl)
    /\ UNCHANGED <<inputs, eofs, argi, stdinPos, packages, port, url, parsed, socket, sendi,
                   wire, exitCode>>

\* connect(url): the handshake succeeds
ConnectOk ==
    /\ pc = "connect"
    /\ socket' = "open"
    /\ pc' = "send"
    /\ trace' = Append(trace, Call("connect", TRUE))
    /\ UNCHANGED <<inputs, eofs, argi, stdinPos, packages, port, url, parsed, sendi, wire,
                   result, exitCode>>

\* ConnectErr with the error dropped: the loop is entered all the same
ConnectErr_Ignored ==
    /\ pc = "connect"
    /\ trace' = Append(trace, Call("connect", FALSE))
    /\ pc' = "send"
    /\ UNCHANGED <<inputs, eofs, argi, stdinPos, packages, port, url, parsed, socket, sendi,
                   wire, result, exitCode>>

\* connect(url): the handshake fails
ConnectErr ==
    /\ pc = "connect"
    /\ Fail("connect", CtxConnect)
    /\ UNCHANGED <<inputs, eofs, argi, stdinPos, packages, port, url, parsed, socket, sendi,
                   wire, exitCode>>

\* WriteOk taking the packages from the back of the vector
WriteOk_Reversed ==
    /\ pc = "send"
    /\ sendi <= Len(packages)
    /\ Serialize(packages[Len(packages) + 1 - sendi]).ok
    /\ wire' = Append(wire, Text(Serialize(packages[Len(packages) + 1 - sendi]).json))
    /\ sendi' = sendi + 1
    /\ trace' = Append(trace, Call("write", TRUE))
    /\ UNCHANGED <<inputs, eofs, pc, argi, stdinPos, packages, port, url, parsed, socket,
                   result, exitCode>>

\* one turn of the loop: the package is serialized and written
WriteOk ==
    /\ pc = "send"
    /\ sendi <= Len(packages)
    /\ Serialize(packages[sendi]).ok
    /\ wire' = Append(wire, Text(Serialize(packages[sendi]).json))
    /\ sendi' = sendi + 1
    /\ trace' = Append(trace, Call("write", TRUE))
    /\ UNCHANGED <<inputs, eofs, pc, argi, stdinPos, packages, port, url, parsed, socket,
                   result, exitCode>>

\* WriteErr leaving the loop for the close instead of returning
WriteErr_ThenClose ==
    /\ pc = "send"
    /\ sendi <= Len(packages)
    /\ trace' = Append(trace, Call("write", FALSE))
    /\ result' = CtxSend
    /\ sendi' = Len(packages) + 1
    /\ UNCHANGED <<inputs, eofs, pc, argi, stdinPos, packages, port, url, parsed, socket,
                   wire, exitCode>>

\* WriteErr with the error dropped: the loop goes on to the next package
WriteErr_Continue ==
    /\ pc = "send"
    /\ sendi <= Len(packages)
    /\ trace' = Append(trace, Call("write", FALSE))
    /\ sendi' = sendi + 1
    /\ UNCHANGED <<inputs, eofs, pc, argi, stdinPos, packages, port, url, parsed, socket,
                   wire, result, exitCode>>

\* one turn of the loop fails: in serialization, or else in write_message
WriteErr ==
    /\ pc = "send"
    /\ sendi <= Len(packages)
    /\ IF Serialize(packages[sendi]).ok
       THEN Fail("write", CtxSend)
       ELSE Fail("to_string", CtxJson)
    /\ UNCHANGED <<inputs, eofs, argi, stdinPos, packages, port, url, parsed, socket, sendi,
                   wire, exitCode>>

\* after the loop: socket.close(None) succeeds and send_packages returns Ok
CloseOk ==
    /\ pc = "send"
    /\ sendi > Len(packages)
    /\ socket' = "closed"
    /\ trace' = Append(trace, Call("close", TRUE))
    /\ result' = "Ok"
    /\ pc' = "return"
    /\ UNCHANGED <<inputs, eofs, argi, stdinPos, packages, port, url, parsed, sendi, wire, exitCode>>

\* CloseErr trying the close a second time before giving up
CloseErr_Retry ==
    /\ pc = "send"
    /\ sendi > Len(packages)
    /\ trace' = Append(trace, Call("close", FALSE))
    /\ IF \E i \in 1..Len(trace) : trace[i].op = "close"
       THEN result' = CtxClose /\ pc' = "return"
       ELSE UNCHANGED <<result, pc>>
    /\ UNCHANGED <<inputs, eofs, argi, stdinPos, packages, port, url, parsed, socket, sendi,
                   wire, exitCode>>

\* CloseErr reporting the failure under the context of the writes
CloseErr_SendContext ==
    /\ pc = "send"
    /\ sendi > Len(packages)
    /\ Fail("close", CtxSend)
    /\ UNCHANGED <<inputs, eofs, argi, stdinPos, packages, port, url, parsed, socket, sendi,
                   wire, exitCode>>

\* after the loop: socket.close(None) fails
CloseErr ==
    /\ pc = "send"
    /\ sendi > Len(packages)
    /\ Fail("close", CtxClose)
    /\ UNCHANGED <<inputs, eofs, argi, stdinPos, packages, port, url, parsed, socket, sendi,
                   wire, exitCode>>

\* ExitCodeOf of a main that drops the Result of run
ExitCodeOf_Dropped(r) == 0

\* the exit code of a main that returns Result: 0 for Ok, 1 for Err
ExitCodeOf(r) == IF r = "Ok" THEN 0 ELSE 1

\* main returns
Return ==
    /\ pc = "return"
    /\ exitCode' = ExitCodeOf(result)
    /\ pc' = "exit"
    /\ UNCHANGED <<inputs, eofs, argi, stdinPos, packages, port, url, parsed, socket, sendi,
                   wire, trace, result>>

Next ==
    \/ GetMatchesOk \/ GetMatchesUsage
    \/ PushCommand \/ OpenStdin \/ ReadLineOk \/ ReadLineErr \/ ReadLineEof
    \/ ParsePortOk \/ ParsePortErr
    \/ Run
    \/ ParseUrlOk \/ ParseUrlErr
    \/ ConnectOk \/ ConnectErr
    \/ WriteOk \/ WriteErr
    \/ CloseOk \/ CloseErr
    \/ Return

Spec == Init /\ [][Next]_vars

\* The invocations whose termination is examined: every shape of the command
\* arguments and of standard input, a server with which the endpoint parses
\* and one with which it does not, a port that parses and one that does not
FairInit ==
    /\ Init
    /\ Len(positionals) >= 1 => Server \in {Ip1234, <<>>}
    /\ Len(positionals) >= 2 => Password = Pw
    /\ portOpt \in {<<>>, <<Port65536>>}
    /\ ~sslFlag

\* The program is one sequential thread: as long as main has not returned,
\* its next call is made and, every blocking call returning, its next step
\* is taken
FairSpec == FairInit /\ [][Next]_vars /\ WF_vars(Next)

\* Standard input whose end is not final.  Each `-` argument opens a new
\* io::stdin().lock().lines() loop, and neither Stdin nor its buffer
\* remembers an end of input: the loop of a later `-` calls read(2) again.
\* On a regular file or a closed pipe that read reports the end again; on
\* a terminal (or a fifo opened by a new writer) it blocks until the next
\* line is entered.  A terminal reports the end of input at the start of a
\* line only, and delivers whole lines.
TtyLines == {<<"-", LF>>, <<LF>>}

\* the bytes delivered after the first end of input
Later == Len(stdin) + 1 - eofs[1]

\* the environment: a line is entered while the loop of a later `-` waits
StdinMore ==
    /\ pc = "stdin"
    /\ eofs # <<>>
    /\ ReadLine(stdin, stdinPos).eof
    /\ stdin # <<>> => stdin[Len(stdin)] = LF
    /\ \E more \in TtyLines :
          /\ Later + Len(more) <= MaxMore
          /\ stdin' = stdin \o more
    /\ UNCHANGED <<positionals, portOpt, sslFlag, eofs, pc, argi, stdinPos, packages, port,
                   url, parsed, socket, sendi, wire, trace, result, exitCode>>

TtyNext == Next \/ StdinMore

\* the invocations of FairInit, standard input being a terminal
TtySpec == FairInit /\ [][TtyNext]_vars

\* ------------------------------------------------------------------------
\* Vocabulary of the properties
\* ------------------------------------------------------------------------
\* the lines of standard input from offset pos on, in read order
RECURSIVE LinesFrom(_, _)
LinesFrom(bytes, pos) ==
    LET r == ReadLine(bytes, pos)
    IN  IF r.eof THEN <<>> ELSE <<r.line>> \o LinesFrom(bytes, r.next)

StdinLines == LinesFrom(stdin, 1)

NotDash(c) == c # Dash
FirstDash == IndexOfAny(Commands, {Dash}, 1)

\* the command sequence the command line and standard input stand for: the
\* arguments other than "-", with the lines of standard input where the
\* first "-" is
ExpectedCommands ==
    IF FirstDash > Len(Commands) THEN Commands
    ELSE SelectSeq(SubSeq(Commands, 1, FirstDash - 1), NotDash)
         \o StdinLines
         \o SelectSeq(SubSeq(Commands, FirstDash + 1, Len(Commands)), NotDash)

\* the text frame of a command, written out character by character
FrameHead ==
    <<"{", QUOTE, "I", "d", "e", "n", "t", "i", "f", "i", "e", "r", QUOTE, ":", "-", "1", ",",
      QUOTE, "M", "e", "s", "s", "a", "g", "e", QUOTE, ":">>
FrameTail ==
    <<",", QUOTE, "N", "a", "m", "e", QUOTE, ":", QUOTE, "W", "e", "b", "R", "c", "o", "n",
      QUOTE, "}">>
FrameOf(c) == [kind |-> "Text", payload |-> FrameHead \o JsonString(c) \o FrameTail]

ExpectedFrames == [i \in 1..Len(ExpectedCommands) |-> FrameOf(ExpectedCommands[i])]

IsPrefix(s, t) == Len(s) <= Len(t) /\ s = SubSeq(t, 1, Len(s))

Called(op) == {i \in 1..Len(trace) : trace[i].op = op}
Succeeded(op) == {i \in 1..Len(trace) : trace[i] = Call(op, TRUE)}
Failed(op) == {i \in 1..Len(trace) : trace[i] = Call(op, FALSE)}
SocketOps == {"write", "to_string", "close"}

\* main has gone through all command arguments
Collected ==
    \/ pc = "commands" /\ argi > Len(Commands)
    \/ Called("parse_port") # {}

\* ------------------------------------------------------------------------
\* C1  Once every write has succeeded, the frames on the socket are the
\* frames of the commands c1..cn, one per command and in their order; at
\* every moment before, they are the first of them.  The close follows the
\* connect after exactly n successful writes and nothing else: for n = 0 it
\* is the call right after the connect.
\* ------------------------------------------------------------------------
C1_OrderedFrames ==
    /\ wire # <<>> => IsPrefix(wire, ExpectedFrames)
    /\ (pc = "send" /\ sendi > Len(packages)) => wire = ExpectedFrames
    /\ \A k \in Called("close") :
          LET n == Len(ExpectedCommands)
          IN  /\ wire = ExpectedFrames
              /\ k > n + 1
              /\ trace[k - n - 1] = Call("connect", TRUE)
              /\ \A j \in (k - n)..(k - 1) : trace[j] = Call("write", TRUE)

C1_Witness ==
    /\ result = "Ok"
    /\ Len(wire) >= 2
    /\ wire[1] # wire[2]

\* ------------------------------------------------------------------------
\* C2  If the connect fails, nothing is ever written or closed, and the
\* error returned is the connect error.
\* ------------------------------------------------------------------------
C2_ConnectFailure ==
    Failed("connect") # {} =>
        /\ wire = <<>>
        /\ \A i \in 1..Len(trace) : trace[i].op \notin SocketOps
        /\ socket = "none"
        /\ result = CtxConnect

C2_Witness ==
    /\ Failed("connect") # {}
    /\ Len(packages) >= 2
    /\ pc = "exit"

\* ------------------------------------------------------------------------
\* C3  If the N-th write fails, the frames on the socket are those of the
\* first N-1 commands, the write error is returned, and the failed write is
\* the last call made.
\* ------------------------------------------------------------------------
C3_WriteFailure ==
    \A k \in Failed("write") \cup Failed("to_string") :
        LET N == Cardinality(Called("write") \cup Called("to_string"))
        IN  /\ N <= Len(ExpectedCommands)
            /\ wire = SubSeq(ExpectedFrames, 1, N - 1)
            /\ k = Len(trace)
            /\ result = IF trace[k].op = "write" THEN CtxSend ELSE CtxJson

C3_Witness ==
    /\ Failed("write") # {}
    /\ Len(wire) = 1
    /\ Len(packages) = 3
    /\ pc = "exit"

\* ------------------------------------------------------------------------
\* C4  At most one connect and one close are made; each package is written
\* at most once; every write and the close come after the successful
\* connect, and no write comes after the close.
\* ------------------------------------------------------------------------
C4_Lifecycle ==
    /\ Cardinality(Called("connect")) <= 1
    /\ Cardinality(Called("close")) <= 1
    /\ Cardinality(Called("write")) <= Len(packages)
    /\ Cardinality(Succeeded("write")) = Len(wire)
    /\ wire # <<>> => IsPrefix(wire, [i \in 1..Len(packages) |-> Text(to_string(packages[i]))])
    /\ \A i \in Called("write") \cup Called("close") :
          \E j \in Succeeded("connect") : j < i
    /\ \A i \in Called("write") : \A j \in Called("close") : i < j
    /\ socket = "open" <=> (Succeeded("connect") # {} /\ Succeeded("close") = {})
    /\ socket = "closed" <=> Succeeded("close") # {}

C4_Witness ==
    /\ socket = "closed"
    /\ Len(wire) = 3

\* ------------------------------------------------------------------------
\* C5  If the close fails after n successful writes, the close error is
\* returned, the n frames stay as written, once each, and no call follows
\* the failed close.
\* ------------------------------------------------------------------------
C5_CloseFailure ==
    \A k \in Failed("close") :
        /\ result = CtxClose
        /\ wire = ExpectedFrames
        /\ Cardinality(Called("write")) = Len(ExpectedCommands)
        /\ Failed("write") = {}
        /\ k = Len(trace)

C5_Witness ==
    /\ result = CtxClose
    /\ Len(wire) = 2
    /\ pc = "exit"

\* ------------------------------------------------------------------------
\* C6  The process exits with 0 exactly when every stage succeeded:
\* arguments, every read of standard input, port, URL, connect, the n
\* writes and the close.  In every other case it exits with a code other
\* than 0.
\* ------------------------------------------------------------------------
EveryStageSucceeded ==
    /\ \A i \in 1..Len(trace) : trace[i].ok
    /\ \A op \in {"get_matches", "parse_port", "url_parse", "connect", "close"} :
          Cardinality(Succeeded(op)) = 1
    /\ Cardinality(Succeeded("write")) = Len(ExpectedCommands)
    /\ Cardinality(Succeeded("read_line")) =
          IF FirstDash > Len(Commands) THEN 0 ELSE Len(StdinLines)

C7_CommandSequence ==
    Collected =>
        /\ Len(packages) = Len(ExpectedCommands)
        /\ \A i \in 1..Len(packages) : packages[i].message = ExpectedCommands[i]

C7_Witness ==
    /\ Collected
    /\ Commands = <<SayHello, Dash, SayHello>>
    /\ Len(packages) = 4
    /\ packages[2].message = <<>>
    /\ packages[3].message = Dash

\* ------------------------------------------------------------------------
\* C8  Every package built has identifier -1, name "WebRcon" and the
\* command, unaltered, as message (the empty command included), and every
\* frame on the socket reads {"Identifier":-1,"Message":<the command as a
\* JSON string>,"Name":"WebRcon"}.
\* ------------------------------------------------------------------------
C8_PackageShape ==
    /\ Len(packages) <= Len(ExpectedCommands)
    /\ \A i \in 1..Len(packages) :
          /\ packages[i].identifier = -1
          /\ packages[i].name = <<"W", "e", "b", "R", "c", "o", "n">>
          /\ packages[i].message = ExpectedCommands[i]
    /\ \A i \in 1..Len(wire) :
          /\ wire[i].kind = "Text"
          /\ SubSeq(wire[i].payload, 1, Len(FrameHead)) = FrameHead
          /\ SubSeq(wire[i].payload, Len(wire[i].payload) - Len(FrameTail) + 1,
                    Len(wire[i].payload)) = FrameTail
          /\ wire[i].payload = FrameHead \o JsonString(packages[i].message) \o FrameTail

C8_Witness ==
    \E i \in 1..Len(wire) :
        /\ packages[i].message = <<>>
        /\ wire[i].payload = FrameHead \o <<QUOTE, QUOTE>> \o FrameTail

\* ------------------------------------------------------------------------
\* C9  The endpoint run composes is <scheme>://<server>:<port>/<password>,
\* the scheme being wss with --ssl and ws without; for example.com, secret
\* and port 28016 without ssl it is ws://example.com:28016/secret, and with
\* port 28017 and ssl it is wss://example.com:28017/secret.  (A port
\* argument that parses is, in this model, its own decimal rendering.)
\* ------------------------------------------------------------------------
UrlWsExample ==
    <<"w", "s", ":", "/", "/", "e", "x", "a", "m", "p", "l", "e", ".", "c", "o", "m", ":",
      "2", "8", "0", "1", "6", "/", "s", "e", "c", "r", "e", "t">>
UrlWssExample ==
    <<"w", "s", "s", ":", "/", "/", "e", "x", "a", "m", "p", "l", "e", ".", "c", "o", "m", ":",
      "2", "8", "0", "1", "7", "/", "s", "e", "c", "r", "e", "t">>

Composed == pc \in {"url_parse", "connect", "send"} \/ Called("url_parse") # {}

C9_Endpoint ==
    Composed =>
        /\ url = (IF sslFlag THEN <<"w", "s", "s">> ELSE <<"w", "s">>) \o <<":", "/", "/">>
                 \o Server \o <<":">> \o PortValue \o <<"/">> \o Password
        /\ (Server = ExampleCom /\ Password = Secret /\ port = 28016 /\ ~sslFlag)
              => url = UrlWsExample
        /\ (Server = ExampleCom /\ Password = Secret /\ port = 28017 /\ sslFlag)
              => url = UrlWssExample

C9_Witness ==
    /\ url = UrlWssExample
    /\ pc = "connect"

\* ------------------------------------------------------------------------
\* C10  The path of the URL the connection is opened to is "/" followed by
\* the password, unaltered.
\* ------------------------------------------------------------------------
C10_PasswordIsPath ==
    Called("connect") # {} => parsed.path = <<"/">> \o Password

\* ------------------------------------------------------------------------
\* C11  Server 1.2.3.4, no --port, password pw, the one command "say
\* hello", no --ssl and no failing call: the calls made are get_matches,
\* the port parse, the URL parse, the connect to ws://1.2.3.4:28016/pw, one
\* write of {"Identifier":-1,"Message":"say hello","Name":"WebRcon"} and
\* the close, in this order, and the process exits with 0.
\* ------------------------------------------------------------------------
ScenarioUrl ==
    <<"w", "s", ":", "/", "/", "1", ".", "2", ".", "3", ".", "4", ":",
      "2", "8", "0", "1", "6", "/", "p", "w">>
ScenarioFrame ==
    <<"{", QUOTE, "I", "d", "e", "n", "t", "i", "f", "i", "e", "r", QUOTE, ":", "-", "1", ",",
      QUOTE, "M", "e", "s", "s", "a", "g", "e", QUOTE, ":",
      QUOTE, "s", "a", "y", " ", "h", "e", "l", "l", "o", QUOTE, ",",
      QUOTE, "N", "a", "m", "e", QUOTE, ":", QUOTE, "W", "e", "b", "R", "c", "o", "n", QUOTE, "}">>
ScenarioTrace ==
    <<Call("get_matches", TRUE), Call("parse_port", TRUE), Call("url_parse", TRUE),
      Call("connect", TRUE), Call("write", TRUE), Call("close", TRUE)>>
Scenario ==
    /\ positionals = <<Ip1234, Pw, SayHello>>
    /\ portOpt = <<>>
    /\ ~sslFlag
    /\ \A i \in 1..Len(trace) : trace[i].ok

C11_Scenario ==
    Scenario =>
        /\ IsPrefix(trace, ScenarioTrace)
        /\ IsPrefix(wire, <<[kind |-> "Text", payload |-> ScenarioFrame]>>)
        /\ Len(wire) = Cardinality(Succeeded("write"))
        /\ Called("connect") # {} =>
              /\ url = ScenarioUrl
              /\ parsed.scheme = <<"w", "s">>
              /\ parsed.host = <<"1", ".", "2", ".", "3", ".", "4">>
              /\ parsed.port = 28016
              /\ parsed.path = <<"/", "p", "w">>
        /\ pc = "exit" => (trace = ScenarioTrace /\ exitCode = 0)

C11_Witness ==
    /\ Scenario
    /\ pc = "exit"
    /\ exitCode = 0
    /\ wire = <<[kind |-> "Text", payload |-> ScenarioFrame]>>

\* ------------------------------------------------------------------------
\* C12  The close is called only after every package was written with
\* success; once a write has failed no close is ever called.
\* ------------------------------------------------------------------------
C12_CloseAfterAll ==
    /\ Called("close") # {} =>
          /\ Failed("write") \cup Failed("to_string") = {}
          /\ Cardinality(Succeeded("write")) = Len(packages)
          /\ Len(wire) = Len(packages)
    /\ Failed("write") \cup Failed("to_string") # {} =>
          /\ Called("close") = {}
          /\ socket # "closed"

C12_Witness ==
    /\ Failed("write") # {}
    /\ Len(wire) = 2
    /\ pc = "exit"

\* ------------------------------------------------------------------------
\* C13  No URL parse or connect happens before all command arguments are
\* processed and standard input, if asked for, is read to its end; if a
\* read of standard input fails, nothing is parsed, connected, written or
\* closed, whatever was collected before.
\* ------------------------------------------------------------------------
NetworkOps == {"url_parse", "connect", "write", "to_string", "close"}
NetworkCalls == {i \in 1..Len(trace) : trace[i].op \in NetworkOps}

C13_CollectFirst ==
    /\ (NetworkCalls # {} \/ pc \in {"run", "url_parse", "connect", "send"}) =>
          /\ argi = Len(Commands) + 1
          /\ Len(packages) = Len(ExpectedCommands)
          /\ FirstDash <= Len(Commands) => ReadLine(stdin, stdinPos).eof
          /\ \A i \in NetworkCalls : \A j \in Called("read_line") : j < i
    /\ Failed("read_line") # {} =>
          /\ NetworkCalls = {}
          /\ wire = <<>>
          /\ socket = "none"
          /\ url = <<>>
          /\ result = CtxStdin

C13_Witness ==
    /\ Failed("read_line") # {}
    /\ Len(packages) >= 2
    /\ pc = "exit"

\* ------------------------------------------------------------------------
\* C14  If the port argument is not a u16, the process exits with a code
\* other than 0 and no URL is parsed, no connection made, nothing written.
\* ------------------------------------------------------------------------
C14_BadPort ==
    ~ParseU16(PortValue).ok =>
        /\ NetworkCalls = {}
        /\ wire = <<>>
        /\ socket = "none"
        /\ pc \notin {"run", "url_parse", "connect", "send"}
        /\ pc = "exit" => exitCode # 0
        /\ Called("parse_port") # {} => result = CtxPort

C14_Witness ==
    /\ Failed("parse_port") # {}
    /\ PortValue = Port65536
    /\ Len(packages) >= 1
    /\ pc = "exit"
    /\ exitCode = 1

\* ------------------------------------------------------------------------
\* C15  If the composed endpoint is not a URL, send_packages returns the
\* URL error: no connect, no write and no close is made.
\* ------------------------------------------------------------------------
C15_BadUrl ==
    /\ Failed("url_parse") # {} =>
          /\ Called("connect") \cup Called("write") \cup Called("close") = {}
          /\ wire = <<>>
          /\ socket = "none"
          /\ result = CtxUrl
    /\ Called("connect") # {} => (parsed.ok /\ Succeeded("url_parse") # {})

C15_Witness ==
    /\ Failed("url_parse") # {}
    /\ Server = <<>>
    /\ Len(packages) >= 1
    /\ pc = "exit"

\* ------------------------------------------------------------------------
\* C16  A failed call is the last call made (nothing is retried, nothing
\* follows it), the error returned is the context of the stage of that
\* call, the contexts of the stages differ from one another, and the
\* process does not end with Ok or exit code 0.
\* ------------------------------------------------------------------------
Stages ==
    {"get_matches", "read_line", "parse_port", "url_parse", "connect", "to_string", "write",
     "close"}
Tag(op) ==
    CASE op = "get_matches" -> ClapUsage
      [] op = "read_line"   -> CtxStdin
      [] op = "parse_port"  -> CtxPort
      [] op = "url_parse"   -> CtxUrl
      [] op = "connect"     -> CtxConnect
      [] op = "to_string"   -> CtxJson
      [] op = "write"       -> CtxSend
      [] op = "close"       -> CtxClose
FailedCalls == {i \in 1..Len(trace) : ~trace[i].ok}

C16_Surfaced ==
    /\ Cardinality({Tag(o) : o \in Stages}) = Cardinality(Stages)
    /\ \A o \in Stages : Tag(o) \notin {"Ok", "pending"}
    /\ \A i \in 1..Len(trace) : trace[i].op \in Stages
    /\ \A i \in FailedCalls :
          /\ i = Len(trace)
          /\ result = Tag(trace[i].op)
          /\ pc \in {"return", "exit"}
          /\ pc = "exit" => exitCode # 0
    /\ FailedCalls = {} => result \in {"pending", "Ok"}
    /\ \A op \in {"get_matches", "parse_port", "url_parse", "connect", "close"} :
          Cardinality(Called(op)) <= 1
    /\ Cardinality(Called("write")) <= Len(packages)
    /\ Cardinality(Called("write")) = Len(wire) + Cardinality(Failed("write"))

C16_Witness ==
    /\ pc = "exit"
    /\ result = "Could not connect to RCON"
    /\ exitCode = 1
    /\ Len(packages) = 1

\* ------------------------------------------------------------------------
\* C17  Every blocking call returning, the invocation terminates; after a
\* failed call, and after the close, no further call is made and nothing
\* more is read or written; a terminated process takes no step.
\* ------------------------------------------------------------------------
Finishing == FailedCalls # {} \/ Called("close") # {}

C17_Terminates ==
    /\ <>(pc = "exit")
    /\ [][Finishing => (trace' = trace /\ wire' = wire /\ stdinPos' = stdinPos
                        /\ packages' = packages /\ pc' \in {"return", "exit"})]_vars
    /\ [][pc # "exit"]_vars

C17_Witness ==
    /\ pc = "exit"
    /\ Failed("write") # {}
    /\ Len(wire) = 1
    /\ Len(packages) = 2
    /\ stdinPos > 1

\* ------------------------------------------------------------------------
\* C18  A command argument "-" is never a message of its own; a line of
\* standard input that reads "-" is a command like any other, written with
\* the message "-", and causes no further reading: every line is read once
\* and gives one package.
\* ------------------------------------------------------------------------
LinesRead == Cardinality(Succeeded("read_line"))
DashFrame ==
    <<"{", QUOTE, "I", "d", "e", "n", "t", "i", "f", "i", "e", "r", QUOTE, ":", "-", "1", ",",
      QUOTE, "M", "e", "s", "s", "a", "g", "e", QUOTE, ":", QUOTE, "-", QUOTE, ",",
      QUOTE, "N", "a", "m", "e", QUOTE, ":", QUOTE, "W", "e", "b", "R", "c", "o", "n", QUOTE, "}">>

C18_DashSentinel ==
    /\ LinesRead <= Len(StdinLines)
    /\ Len(packages) =
          Cardinality({k \in 1..(argi - 1) : k <= Len(Commands) /\ Commands[k] # Dash})
          + LinesRead
    /\ Cardinality({i \in 1..Len(packages) : packages[i].message = <<"-">>})
          = Cardinality({j \in 1..LinesRead : StdinLines[j] = <<"-">>})
    /\ \A i \in 1..Len(wire) :
          packages[i].message = <<"-">> <=> wire[i] = [kind |-> "Text", payload |-> DashFrame]

C18_Witness ==
    /\ result = "Ok"
    /\ Commands = <<Dash, SayHello>>
    /\ Len(wire) = 2
    /\ wire[1] = [kind |-> "Text", payload |-> DashFrame]
    /\ packages[2].message = SayHello

\* ------------------------------------------------------------------------
\* C20  If no command argument is "-", standard input is never read, and
\* the messages written are those of the command arguments, whatever
\* standard input holds.
\* ------------------------------------------------------------------------
NoDash == Len(positionals) >= 3 /\ \A k \in 1..Len(Commands) : Commands[k] # <<"-">>

C20_NoDashNoRead ==
    NoDash =>
        /\ Called("read_line") = {}
        /\ stdinPos = 1
        /\ pc # "stdin"
        /\ Len(packages) <= Len(Commands)
        /\ \A i \in 1..Len(packages) : packages[i].message = Commands[i]
        /\ Len(wire) <= Len(Commands)
        /\ \A i \in 1..Len(wire) : wire[i] = FrameOf(Commands[i])
        /\ Called("close") # {} => Len(wire) = Len(Commands)

C20_Witness ==
    /\ NoDash
    /\ Len(Commands) = 2
    /\ Len(stdin) = 2
    /\ result = "Ok"
    /\ Len(wire) = 2

\* ------------------------------------------------------------------------
\* C19: several `-` among the command arguments
\* ------------------------------------------------------------------------
\* the `-` arguments among the first k command arguments
DashesUpTo(k) == Cardinality({j \in 1..k : Commands[j] = Dash})

\* the bytes the loop of the d-th `-` consumed: from the end of input that
\* stopped the loop before it up to the end of input that stopped it
Segment(d) == SubSeq(stdin, IF d = 1 THEN 1 ELSE eofs[d - 1], eofs[d] - 1)

\* what the k-th command argument contributes to the command sequence
Contribution(k) ==
    IF Commands[k] # Dash THEN <<Commands[k]>>
    ELSE LinesFrom(Segment(DashesUpTo(k)), 1)

RECURSIVE ContributionsUpTo(_)
ContributionsUpTo(k) ==
    IF k = 0 THEN <<>> ELSE ContributionsUpTo(k - 1) \o Contribution(k)

RECURSIVE SegmentLinesUpTo(_)
SegmentLinesUpTo(d) ==
    IF d = 0 THEN <<>> ELSE SegmentLinesUpTo(d - 1) \o LinesFrom(Segment(d), 1)

Messages == [i \in 1..Len(packages) |-> packages[i].message]

\* C19 as written: with several `-` among the command arguments, the first
\* one consumes standard input to its end and every later one contributes no
\* command, so that every line of standard input stands exactly once in the
\* command sequence, at the position of the first `-`.  Fails when standard
\* input delivers a line after its first end of input: the loop of the
\* later `-` reads that line and adds it at its own position.
C19_LaterDashesEmpty ==
    (Collected /\ DashesUpTo(Len(Commands)) >= 2) =>
        /\ \A d \in 2..Len(eofs) : LinesFrom(Segment(d), 1) = <<>>
        /\ Messages = ExpectedCommands

\* C19, amended: the loop of every `-` reads standard input from where the
\* loop before it stopped up to the next end of input.  Every line read
\* stands exactly once in the command sequence, at the position of the `-`
\* whose loop read it, and is transmitted at most once; a later `-`
\* contributes no command exactly when standard input delivered no line
\* between the two ends of input.
C19_EachLineOnce ==
    (Collected /\ DashesUpTo(Len(Commands)) >= 2) =>
        /\ Len(eofs) = DashesUpTo(Len(Commands))
        /\ \A d \in 2..Len(eofs) : eofs[d - 1] <= eofs[d]
        /\ eofs[Len(eofs)] = Len(stdin) + 1
        /\ SegmentLinesUpTo(Len(eofs)) = StdinLines
        /\ Messages = ContributionsUpTo(Len(Commands))
        /\ \A d \in 2..Len(eofs) :
              (eofs[d] = eofs[d - 1]) <=> (LinesFrom(Segment(d), 1) = <<>>)
        /\ Len(wire) <= Len(packages)
        /\ \A i \in 1..Len(wire) : wire[i] = FrameOf(packages[i].message)

\* a later `-` contributed a line and all commands were transmitted
C19_Witness ==
    /\ result = "Ok"
    /\ Commands = <<Dash, SayHello, Dash>>
    /\ Len(eofs) = 2 /\ eofs[1] < eofs[2]
    /\ Len(packages) >= 3
    /\ Len(wire) = Len(packages)

====
